---- MODULE Spec2Model ----
(***************************************************************************)
(* Model of the S3 attachment driver of roots-db-ext-s3                    *)
(* (lib/s3.attachmentDriver.js): the process-wide endpoint registry, the   *)
(* driver constructor, initAttachment and the store operations, over an    *)
(* S3-like object store.                                                   *)
(*                                                                         *)
(* JavaScript strings that the code splits, joins or concatenates are      *)
(* sequences of one-character strings, so that those conversions are       *)
(* computed and not assumed.  Strings that are only compared (a            *)
(* collection's url) are TLA+ strings.                                     *)
(***************************************************************************)
EXTENDS Integers, Sequences, FiniteSets, TLC

(***************************************************************************)
(* Bounds of the model.                                                    *)
(***************************************************************************)
MaxConstructions == 3

(***************************************************************************)
(* String helpers (String.prototype.split, Array.prototype.join).          *)
(***************************************************************************)
Slash == "/"

RECURSIVE SplitFrom(_, _, _)
SplitFrom(s, cur, acc) ==
    IF s = <<>> THEN Append(acc, cur)
    ELSE IF Head(s) = Slash THEN SplitFrom(Tail(s), <<>>, Append(acc, cur))
    ELSE SplitFrom(Tail(s), Append(cur, Head(s)), acc)

\* str.split( '/' ): always at least one (possibly empty) part
Split(s) == SplitFrom(s, <<>>, <<>>)

RECURSIVE Join(_)
\* parts.join( '/' )
Join(parts) ==
    IF parts = <<>> THEN <<>>
    ELSE IF Len(parts) = 1 THEN parts[1]
    ELSE parts[1] \o <<Slash>> \o Join(Tail(parts))

NonEmptyPart(part) == Len(part) > 0

(***************************************************************************)
(* The constructor's parsing of collection.attachmentConfig.pathname.      *)
(***************************************************************************)
\* A bug that forgets .filter( part => part.length )
PathPartsNoFilter(pathname) == Split(pathname)

PathParts(pathname) == SelectSeq(Split(pathname), NonEmptyPart)

Bucket(pathname) == Head(PathParts(pathname))

\* A bug that never appends the trailing separator
PrefixNoSlash(pathname) == Join(Tail(PathParts(pathname)))

Prefix(pathname) ==
    LET prefix == Join(Tail(PathParts(pathname)))
    IN  \* prefix[ -1 ] is undefined, which is not '/'
        IF Len(prefix) = 0 \/ prefix[Len(prefix)] # Slash
        THEN prefix \o <<Slash>> ELSE prefix

S3Config(collection) ==
    [ endpoint |-> collection.hostname,
      bucket   |-> Bucket(collection.pathname),
      prefix   |-> Prefix(collection.pathname) ]

\* A bug that leaves the prefix out of the recorded address
FullEndpointNoPrefix(collection) ==
    LET s3Config == S3Config(collection)
    IN  s3Config.endpoint \o <<Slash>> \o s3Config.bucket \o <<Slash>>

FullEndpoint(collection) ==
    LET s3Config == S3Config(collection)
    IN  s3Config.endpoint \o <<Slash>> \o s3Config.bucket \o <<Slash>> \o s3Config.prefix

(***************************************************************************)
(* State.                                                                  *)
(***************************************************************************)
VARIABLES
    storageEndpointFoolproof,   \* the module-level Map: full endpoint -> collection.url
    drivers,                    \* the driver objects constructed so far, in order
    constructions,              \* history: every constructor call and its outcome
    attachments,                \* the host's attachment objects (a set: equal objects are one)
    objects,                    \* the object store: locator -> body
    pending,                    \* store calls awaiting the backend (a set: equal calls are one)
    last,                       \* the store call that settled last, and its result
    written                     \* history: what the host last stored per attachment

vars == <<storageEndpointFoolproof, drivers, constructions, attachments,
          objects, pending, last, written>>

storeVars == <<attachments, objects, pending, last, written>>

\* Map.prototype.has / set on a function
MapHas(map, key) == key \in DOMAIN map
MapSet(map, key, value) ==
    [k \in DOMAIN map \cup {key} |-> IF k = key THEN value ELSE map[k]]

NoCall == [ op |-> "none" ]

Init ==
    /\ storageEndpointFoolproof = <<>>
    /\ drivers = <<>>
    /\ constructions = <<>>
    /\ attachments = {}
    /\ objects = <<>>
    /\ pending = {}
    /\ last = NoCall
    /\ written = <<>>

(***************************************************************************)
(* new S3AttachmentDriver( collection )                                    *)
(***************************************************************************)
\* A bug that rejects every construction on a recorded endpoint
SharedByAnyone(map, collection) ==
    MapHas(map, FullEndpoint(collection))

\* the endpoint is recorded for another collection.url
SharedByOther(map, collection) ==
    /\ MapHas(map, FullEndpoint(collection))
    /\ map[FullEndpoint(collection)] # collection.url

\* A bug that accepts a pathname holding a bucket alone
MissingPartsOffByOne(pathname) == Len(PathParts(pathname)) < 1

MissingParts(pathname) == Len(PathParts(pathname)) < 2

\* A bug that never looks who holds the endpoint
OutcomeUnguarded(map, collection) ==
    IF MissingParts(collection.pathname) THEN "missingBucketAndPrefix" ELSE "ok"

\* what the constructor does: throw one of its two errors, or return
Outcome(map, collection) ==
    IF MissingParts(collection.pathname) THEN "missingBucketAndPrefix"
    ELSE IF SharedByOther(map, collection) THEN "storageEndpointSharing"
    ELSE "ok"

\* A bug that records the endpoint before checking who holds it
RegisteredEarly(map, collection) ==
    IF MissingParts(collection.pathname) THEN map
    ELSE MapSet(map, FullEndpoint(collection), collection.url)

\* the Map once the constructor has returned or thrown
Registered(map, collection) ==
    IF MissingParts(collection.pathname) THEN map
    ELSE IF MapHas(map, FullEndpoint(collection)) THEN map
    ELSE MapSet(map, FullEndpoint(collection), collection.url)

\* the object the constructor builds: this.collection, this.appendExtension, this.s3
Driver(collection) ==
    [ collection      |-> collection,
      appendExtension |-> collection.attachmentAppendExtension,
      s3              |-> S3Config(collection) ]

S3AttachmentDriver(collection) ==
    /\ Len(constructions) < MaxConstructions
    /\ LET outcome == Outcome(storageEndpointFoolproof, collection)
       IN  /\ storageEndpointFoolproof' = Registered(storageEndpointFoolproof, collection)
           /\ drivers' = IF outcome = "ok" THEN Append(drivers, Driver(collection))
                         ELSE drivers
           /\ constructions' = Append(constructions,
                                      [ collection |-> collection, outcome |-> outcome ])
    /\ UNCHANGED storeVars

(***************************************************************************)
(* Collections the host may configure.                                     *)
(***************************************************************************)
Urls == { "users", "jobs" }
Hostnames == { <<"h">>, <<"g">> }

Pathnames ==
    { <<>>,                                  \* ""
      <<"b">>,                               \* "b"
      <<"/", "/">>,                          \* "//"
      <<"b", "/", "a">>,                     \* "b/a"
      <<"/", "b", "/", "/", "a", "/">>,      \* "/b//a/"
      <<"b", "/", "c">>,                     \* "b/c"
      <<"b", "/", "a", "/", "c">> }          \* "b/a/c"

Collection(url, hostname, pathname, appendExtension, publicBaseUrl) ==
    [ url                       |-> url,
      hostname                  |-> hostname,
      pathname                  |-> pathname,
      attachmentAppendExtension |-> appendExtension,
      attachmentPublicBaseUrl   |-> publicBaseUrl ]

RegistryCollections ==
    { Collection(url, hostname, pathname, FALSE, <<>>) :
        url \in Urls, hostname \in Hostnames, pathname \in Pathnames }

NextRegistry ==
    \E collection \in RegistryCollections : S3AttachmentDriver(collection)

SpecRegistry == Init /\ [][NextRegistry]_vars

(***************************************************************************)
(* initAttachment( attachment )                                            *)
(***************************************************************************)
IdLength == 24

Dot == "."
DotDot == <<".", ".">>

RECURSIVE NormalizeParts(_, _)
\* path.normalize of a relative path, segment by segment: "" and "." are
\* dropped, ".." removes the segment before it or stays when there is none
NormalizeParts(parts, acc) ==
    IF parts = <<>> THEN acc
    ELSE LET part == Head(parts)
         IN  IF part = <<>> \/ part = <<Dot>> THEN NormalizeParts(Tail(parts), acc)
             ELSE IF part = DotDot
             THEN IF acc # <<>> /\ acc[Len(acc)] # DotDot
                  THEN NormalizeParts(Tail(parts), SubSeq(acc, 1, Len(acc) - 1))
                  ELSE NormalizeParts(Tail(parts), Append(acc, part))
             ELSE NormalizeParts(Tail(parts), Append(acc, part))

\* the same for an absolute path: ".." at the root is dropped
RECURSIVE NormalizeAbsoluteParts(_, _)
NormalizeAbsoluteParts(parts, acc) ==
    IF parts = <<>> THEN acc
    ELSE LET part == Head(parts)
         IN  IF part = <<>> \/ part = <<Dot>> THEN NormalizeAbsoluteParts(Tail(parts), acc)
             ELSE IF part = DotDot
             THEN NormalizeAbsoluteParts(Tail(parts),
                                         IF acc # <<>> THEN SubSeq(acc, 1, Len(acc) - 1)
                                         ELSE acc)
             ELSE NormalizeAbsoluteParts(Tail(parts), Append(acc, part))

\* path.normalize( joined ), joined not empty
Normalize(joined) ==
    LET isAbsolute == joined[1] = Slash
        trailingSeparator == joined[Len(joined)] = Slash
        body == IF isAbsolute THEN Join(NormalizeAbsoluteParts(Split(joined), <<>>))
                ELSE Join(NormalizeParts(Split(joined), <<>>))
        tailed == IF body # <<>> /\ trailingSeparator THEN body \o <<Slash>> ELSE body
    IN  IF isAbsolute THEN <<Slash>> \o tailed
        ELSE IF tailed = <<>> THEN (IF trailingSeparator THEN <<Dot, Slash>> ELSE <<Dot>>)
        ELSE tailed

\* A bug that concatenates the two without a separator
PathConcat(documentId, id) == documentId \o id

\* path.join( documentId , id )
PathJoin(documentId, id) ==
    LET joined == IF documentId = <<>> THEN id
                  ELSE IF id = <<>> THEN documentId
                  ELSE documentId \o <<Slash>> \o id
    IN  IF joined = <<>> THEN <<Dot>> ELSE Normalize(joined)

\* A bug that regenerates the id on every call
KeepsIdNever(attachment) == FALSE

\* ! attachment.id is false: the id is a non-empty string
KeepsId(attachment) == attachment.id # <<>>

\* A bug that appends the extension whatever the driver's setting
GeneratedIdAlwaysSuffixed(driver, attachment, random) ==
    IF attachment.extension # <<>>
    THEN random \o <<Dot>> \o attachment.extension
    ELSE random

\* lines 111-112: the generated id, `random` being hash.randomBase36String( 24 )
GeneratedId(driver, attachment, random) ==
    IF driver.appendExtension /\ attachment.extension # <<>>
    THEN random \o <<Dot>> \o attachment.extension
    ELSE random

\* the attachment once initAttachment has returned
Initialized(driver, attachment, random) ==
    LET id == IF KeepsId(attachment) THEN attachment.id
              ELSE GeneratedId(driver, attachment, random)
        path == PathJoin(attachment.documentId, id)
        base == driver.collection.attachmentPublicBaseUrl
    IN  [ attachment EXCEPT
            !.id = id,
            !.path = path,
            !.publicUrl = IF base # <<>> THEN base \o path ELSE <<>> ]

NotInitialized ==
    [ set |-> FALSE, random |-> <<>>, appendExtension |-> FALSE, extension |-> <<>> ]

\* history: what the first initAttachment call of an attachment without id was given
FirstCall(driver, attachment, random) ==
    IF attachment.id = <<>>
    THEN [ set |-> TRUE, random |-> random,
           appendExtension |-> driver.appendExtension,
           extension |-> attachment.extension ]
    ELSE attachment.first

\* history: what the latest initAttachment call of an attachment with an id was given
LaterCall(driver, attachment) ==
    IF attachment.id # <<>>
    THEN [ set |-> TRUE, random |-> <<>>,
           appendExtension |-> driver.appendExtension,
           extension |-> attachment.extension ]
    ELSE attachment.again

InitAttachment(d, attachment, random) ==
    /\ attachments' =
         (attachments \ { attachment }) \cup
         { [ Initialized(drivers[d], attachment, random) EXCEPT
               !.first = FirstCall(drivers[d], attachment, random),
               !.again = LaterCall(drivers[d], attachment) ] }
    /\ UNCHANGED <<storageEndpointFoolproof, drivers, constructions,
                   objects, pending, last, written>>

(***************************************************************************)
(* The host: it creates attachment objects and may change their extension. *)
(***************************************************************************)
MaxAttachmentsPerDocument == 1

AttachmentsOf(documentId) ==
    { attachment \in attachments : attachment.documentId = documentId }

\* id, path and publicUrl are undefined (the empty sequence) until set
Attachment(documentId, id, extension) ==
    [ documentId |-> documentId,
      id         |-> id,
      extension  |-> extension,
      path       |-> <<>>,
      publicUrl  |-> <<>>,
      first      |-> NotInitialized,    \* history, see FirstCall
      again      |-> NotInitialized ]   \* history, see LaterCall

CreateAttachment(documentId, id, extension) ==
    /\ Cardinality(AttachmentsOf(documentId)) < MaxAttachmentsPerDocument
    /\ attachments' = attachments \cup { Attachment(documentId, id, extension) }
    /\ UNCHANGED <<storageEndpointFoolproof, drivers, constructions,
                   objects, pending, last, written>>

SetExtension(attachment, extension) ==
    /\ attachment.extension # extension
    /\ attachments' =
         (attachments \ { attachment }) \cup { [ attachment EXCEPT !.extension = extension ] }
    /\ UNCHANGED <<storageEndpointFoolproof, drivers, constructions,
                   objects, pending, last, written>>

(***************************************************************************)
(* The object store behind this.s3 (the s3k-core client): one flat         *)
(* namespace of keys per endpoint and bucket; the client prepends the      *)
(* driver's prefix to every key.                                           *)
(***************************************************************************)
Locator(s3, key) ==
    [ endpoint |-> s3.endpoint, bucket |-> s3.bucket, key |-> s3.prefix \o key ]

StartsWith(s, prefix) ==
    /\ Len(prefix) <= Len(s)
    /\ SubSeq(s, 1, Len(prefix)) = prefix

Without(map, keys) == [k \in DOMAIN map \ keys |-> map[k]]

\* A bug that appends to the object already stored
PutObjectAppending(store, s3, key, body) ==
    LET locator == Locator(s3, key)
    IN  MapSet(store, locator,
               IF MapHas(store, locator) THEN store[locator] \o body ELSE body)

\* s3.putObject / s3.upload, once the body has arrived: the object is replaced
PutObject(store, s3, key, body) == MapSet(store, Locator(s3, key), body)

Resolved(value) == [ status |-> "resolved", error |-> "none", value |-> value ]
Rejected(error) == [ status |-> "rejected", error |-> error, value |-> <<>> ]

\* A bug that resolves a read of a missing object with an empty body
GetObjectLenient(store, s3, key) ==
    IF MapHas(store, Locator(s3, key)) THEN Resolved(store[Locator(s3, key)])
    ELSE Resolved(<<>>)

\* s3.getObject / s3.getObjectStream: data.Body, or the client's rejection for
\* a missing key, which the driver passes on unchanged
GetObject(store, s3, key) ==
    IF MapHas(store, Locator(s3, key)) THEN Resolved(store[Locator(s3, key)])
    ELSE Rejected("NotFound")

\* A bug that leaves the object in place
DeleteObjectKeeping(store, s3, key) == store

\* s3.deleteObject: the key is gone afterwards, whether or not it was there
DeleteObject(store, s3, key) == Without(store, { Locator(s3, key) })

\* A bug that rejects the removal of a missing key
DeleteObjectResultStrict(store, s3, key) ==
    IF MapHas(store, Locator(s3, key)) THEN Resolved(<<>>) ELSE Rejected("NotFound")

\* s3.deleteObject resolves whether or not the key was there
DeleteObjectResult(store, s3, key) == Resolved(<<>>)

\* A bug that matches the directory name without its trailing '/'
InDirectoryLoose(store, s3, directory) ==
    LET name == IF directory # <<>> THEN SubSeq(directory, 1, Len(directory) - 1)
                ELSE directory
    IN  { locator \in DOMAIN store :
            /\ locator.endpoint = s3.endpoint
            /\ locator.bucket = s3.bucket
            /\ StartsWith(locator.key, s3.prefix \o name) }

\* the objects s3.deleteDirectory lists: those under prefix + Directory
InDirectory(store, s3, directory) ==
    { locator \in DOMAIN store :
        /\ locator.endpoint = s3.endpoint
        /\ locator.bucket = s3.bucket
        /\ StartsWith(locator.key, s3.prefix \o directory) }

\* s3.deleteDirectory
DeleteDirectory(store, s3, directory) ==
    Without(store, InDirectory(store, s3, directory))

(***************************************************************************)
(* attachment.incoming: what the host hands to save.  `content` is the     *)
(* byte sequence the host means to store (history); `chunks` is how it is  *)
(* delivered: a string or Buffer at once, a stream chunk by chunk.         *)
(***************************************************************************)
Incoming(type, chunks, content) ==
    [ type |-> type, chunks |-> chunks, content |-> content ]

Incomings ==
    { Incoming("buffer", << <<1, 2>> >>, <<1, 2>>),
      Incoming("buffer", << <<3>> >>, <<3>>),
      Incoming("string", << <<3>> >>, <<3>>),
      Incoming("stream", << <<1>>, <<2>> >>, <<1, 2>>),
      Incoming("stream", << <<3>> >>, <<3>>),
      Incoming("number", <<>>, <<>>) }

\* typeof incoming === 'string' || Buffer.isBuffer( incoming )
IsContent(incoming) == incoming.type \in { "string", "buffer" }
\* A bug that takes any object for a stream
IsStreamOrObject(incoming) == incoming.type \in { "stream", "object" }

\* incoming instanceof stream.Readable
IsStream(incoming) == incoming.type = "stream"

(***************************************************************************)
(* Store calls.  A call that awaits the backend is in `pending` until the  *)
(* backend has answered; `last` is the call settled last.                  *)
(***************************************************************************)
MaxPending == 2

\* history: the attachment a call is about
Subject(s3, documentId, id) == [ s3 |-> s3, documentId |-> documentId, id |-> id ]

\* history: the host's last settled save or delete of a subject, and in `over`
\* the one before it
Entry(kind, content, type, over) ==
    [ kind |-> kind, content |-> content, type |-> type, over |-> over ]

Never == Entry("never", <<>>, "none", [ kind |-> "never", content |-> <<>> ])
Expect(subject) == IF MapHas(written, subject) THEN written[subject] ELSE Never
Before(subject) ==
    [ kind |-> Expect(subject).kind, content |-> Expect(subject).content ]

Saved(subject, content, type) == Entry("saved", content, type, Before(subject))
Deleted(subject) == Entry("deleted", <<>>, "none", Before(subject))
Unknown(subject) == Entry("unknown", <<>>, "none", Before(subject))

\* history: a directory removal may have taken any saved object
Forgotten ==
    [ subject \in DOMAIN written |->
        IF written[subject].kind = "saved" THEN Unknown(subject) ELSE written[subject] ]

PendingCall(op, s3, subject, key, body, stream, incoming) ==
    [ op |-> op, s3 |-> s3, subject |-> subject, key |-> key,
      body |-> body, stream |-> stream,
      content |-> incoming.content, type |-> incoming.type ]   \* history

NoIncoming == [ content |-> <<>>, type |-> "none" ]

Settled(op, subject, result, removed) ==
    [ op |-> op, subject |-> subject,
      status |-> result.status, error |-> result.error, value |-> result.value,
      removed |-> removed ]

registryVars == <<storageEndpointFoolproof, drivers, constructions>>

\* save: saveContent puts the string or Buffer, saveStream uploads the stream,
\* anything else is rejected at once
Save(d, attachment, incoming) ==
    LET s3 == drivers[d].s3
        subject == Subject(s3, attachment.documentId, attachment.id)
    IN  /\ attachment.path # <<>>
        /\ IF IsContent(incoming)
           THEN /\ Cardinality(pending) < MaxPending
                /\ pending' = pending \cup
                     { PendingCall("save", s3, subject, attachment.path,
                                   incoming.chunks[1], <<>>, incoming) }
                /\ UNCHANGED last
           ELSE IF IsStream(incoming)
           THEN /\ Cardinality(pending) < MaxPending
                /\ pending' = pending \cup
                     { PendingCall("save", s3, subject, attachment.path,
                                   <<>>, incoming.chunks, incoming) }
                /\ UNCHANGED last
           ELSE /\ last' = Settled("save", subject, Rejected("unsupportedType"), {})
                /\ UNCHANGED pending
        /\ UNCHANGED <<registryVars, attachments, objects, written>>

\* A bug that keeps only the chunk received last
ReceivedLast(body, chunk) == chunk

\* the upload gathers the stream's chunks in order
Received(body, chunk) == body \o chunk

\* s3.upload reads one more chunk of the stream
UploadChunk(call) ==
    /\ call.op = "save"
    /\ call.stream # <<>>
    /\ pending' = (pending \ { call }) \cup
                    { [ call EXCEPT !.body = Received(@, Head(call.stream)),
                                    !.stream = Tail(@) ] }
    /\ UNCHANGED <<registryVars, attachments, objects, last, written>>

\* the awaited putObject or upload resolves
SaveDone(call) ==
    /\ call.op = "save"
    /\ call.stream = <<>>
    /\ objects' = PutObject(objects, call.s3, call.key, call.body)
    /\ written' = MapSet(written, call.subject, Saved(call.subject, call.content, call.type))
    /\ last' = Settled("save", call.subject, Resolved(<<>>), {})
    /\ pending' = pending \ { call }
    /\ UNCHANGED <<registryVars, attachments>>

\* load: the backend answers s3.getObject at one instant
Load(d, attachment) ==
    LET s3 == drivers[d].s3
        subject == Subject(s3, attachment.documentId, attachment.id)
    IN  /\ attachment.path # <<>>
        /\ last' = Settled("load", subject, GetObject(objects, s3, attachment.path), {})
        /\ UNCHANGED <<registryVars, attachments, objects, pending, written>>

\* getReadStream: the stream s3.getObjectStream gives, read to its end
GetReadStream(d, attachment) ==
    LET s3 == drivers[d].s3
        subject == Subject(s3, attachment.documentId, attachment.id)
    IN  /\ attachment.path # <<>>
        /\ last' = Settled("getReadStream", subject,
                           GetObject(objects, s3, attachment.path), {})
        /\ UNCHANGED <<registryVars, attachments, objects, pending, written>>

\* delete
Delete(d, attachment) ==
    LET s3 == drivers[d].s3
        subject == Subject(s3, attachment.documentId, attachment.id)
    IN  /\ attachment.path # <<>>
        /\ Cardinality(pending) < MaxPending
        /\ pending' = pending \cup
             { PendingCall("delete", s3, subject, attachment.path, <<>>, <<>>, NoIncoming) }
        /\ UNCHANGED <<registryVars, attachments, objects, last, written>>

\* the awaited deleteObject settles
DeleteDone(call) ==
    /\ call.op = "delete"
    /\ objects' = DeleteObject(objects, call.s3, call.key)
    /\ written' = MapSet(written, call.subject, Deleted(call.subject))
    /\ last' = Settled("delete", call.subject,
                       DeleteObjectResult(objects, call.s3, call.key), {})
    /\ pending' = pending \ { call }
    /\ UNCHANGED <<registryVars, attachments>>

\* A bug that passes the document id without the separator
DirPathBare(documentId) == documentId

\* var dirPath = documentId + '/'
DirPath(documentId) == documentId \o <<Slash>>

\* deleteAllInDocument; ! dirPath is never true, dirPath holds at least '/'
DeleteAllInDocument(d, documentId) ==
    LET s3 == drivers[d].s3
    IN  /\ Cardinality(pending) < MaxPending
        /\ pending' = pending \cup
             { PendingCall("deleteAllInDocument", s3, Subject(s3, documentId, <<>>),
                           DirPath(documentId), <<>>, <<>>, NoIncoming) }
        /\ UNCHANGED <<registryVars, attachments, objects, last, written>>

\* clear: the directory is the whole prefix
Clear(d) ==
    LET s3 == drivers[d].s3
    IN  /\ Cardinality(pending) < MaxPending
        /\ pending' = pending \cup
             { PendingCall("clear", s3, Subject(s3, <<>>, <<>>), <<>>, <<>>, <<>>,
                           NoIncoming) }
        /\ UNCHANGED <<registryVars, attachments, objects, last, written>>

\* the awaited deleteDirectory of deleteAllInDocument or clear resolves
DeleteDirectoryDone(call) ==
    /\ call.op \in { "deleteAllInDocument", "clear" }
    /\ objects' = DeleteDirectory(objects, call.s3, call.key)
    /\ written' = Forgotten
    /\ last' = Settled(call.op, call.subject, Resolved(<<>>),
                       InDirectory(objects, call.s3, call.key))
    /\ pending' = pending \ { call }
    /\ UNCHANGED <<registryVars, attachments>>

(***************************************************************************)
(* The store specification: one collection, one document, every kind of    *)
(* incoming and every store call.                                          *)
(***************************************************************************)
Users == Collection("users", <<"h">>, <<"b", "/", "a">>, FALSE, <<>>)

HostIds == { <<"f">> }

\* hash.randomBase36String( 24 ): two of the 36^24 strings
RandomId(c) == [i \in 1..IdLength |-> c]
RandomIds == { RandomId("a"), RandomId("7") }

Drivers == 1..Len(drivers)

Next ==
    \/ S3AttachmentDriver(Users)
    \/ \E id \in HostIds : CreateAttachment(<<"4">>, id, <<>>)
    \/ \E d \in Drivers, attachment \in attachments :
         InitAttachment(d, attachment, RandomId("a"))
    \/ \E d \in Drivers, attachment \in attachments, incoming \in Incomings :
         Save(d, attachment, incoming)
    \/ \E call \in pending : UploadChunk(call)
    \/ \E call \in pending : SaveDone(call)
    \/ \E d \in Drivers, attachment \in attachments : Load(d, attachment)
    \/ \E d \in Drivers, attachment \in attachments : GetReadStream(d, attachment)
    \/ \E d \in Drivers, attachment \in attachments : Delete(d, attachment)
    \/ \E call \in pending : DeleteDone(call)
    \/ \E d \in Drivers : DeleteAllInDocument(d, <<"4">>)
    \/ \E d \in Drivers : Clear(d)
    \/ \E call \in pending : DeleteDirectoryDone(call)

Spec == Init /\ [][Next]_vars

(***************************************************************************)
(* The documents specification: one collection, the attachments "f" and    *)
(* "g" of document "4" and "f" of document "42", a single kind of          *)
(* incoming.                                                               *)
(***************************************************************************)
DocumentIds == { <<"4">>, <<"4", "2">> }
DocumentAttachments ==
    { << <<"4">>, <<"f">> >>, << <<"4">>, <<"g">> >>, << <<"4", "2">>, <<"f">> >> }
OneByte == Incoming("buffer", << <<3>> >>, <<3>>)

NextDocuments ==
    \/ S3AttachmentDriver(Users)
    \/ \E pair \in DocumentAttachments : CreateAttachment(pair[1], pair[2], <<>>)
    \/ \E d \in Drivers, attachment \in attachments :
         InitAttachment(d, attachment, RandomId("a"))
    \/ \E d \in Drivers, attachment \in attachments : Save(d, attachment, OneByte)
    \/ \E call \in pending : SaveDone(call)
    \/ \E d \in Drivers, documentId \in DocumentIds : DeleteAllInDocument(d, documentId)
    \/ \E call \in pending : DeleteDirectoryDone(call)

SpecDocuments == Init /\ [][NextDocuments]_vars

(***************************************************************************)
(* The attachments specification: a collection that appends extensions and *)
(* one that does not, attachments with and without id and extension, no    *)
(* store call.                                                             *)
(***************************************************************************)
Jobs == Collection("jobs", <<"h">>, <<"b", "/", "c">>, TRUE, <<"p", "/">>)

Extensions == { <<>>, <<"t">> }

NextAttachments ==
    \/ \E collection \in { Users, Jobs } : S3AttachmentDriver(collection)
    \/ \E id \in { <<>> } \cup HostIds, extension \in Extensions :
         CreateAttachment(<<"4">>, id, extension)
    \/ \E d \in Drivers, attachment \in attachments, random \in RandomIds :
         InitAttachment(d, attachment, random)
    \/ \E attachment \in attachments, extension \in Extensions :
         SetExtension(attachment, extension)

SpecAttachments == Init /\ [][NextAttachments]_vars

(***************************************************************************)
(* The paths specification: both collections, and documentIds and ids that *)
(* path.join leaves as they are or rewrites: a plain segment, a trailing   *)
(* '/' and a leading "./".                                                 *)
(***************************************************************************)
PathAttachments ==
    { << <<"4">>, <<"f">>, <<>> >>,                    \* "4", "f"
      << <<"4", "/">>, <<"f">>, <<>> >>,               \* "4/", "f"
      << <<"5">>, <<>>, <<"t">> >>,                    \* "5", id to be generated
      << <<"5">>, <<".", "/", "f">>, <<>> >> }         \* "5", "./f"

NextPaths ==
    \/ \E collection \in { Users, Jobs } : S3AttachmentDriver(collection)
    \/ \E triple \in PathAttachments :
         CreateAttachment(triple[1], triple[2], triple[3])
    \/ \E d \in Drivers, attachment \in attachments :
         InitAttachment(d, attachment, RandomId("a"))

SpecPaths == Init /\ [][NextPaths]_vars

(***************************************************************************)
(* The incoming specification: one collection, one attachment, and save    *)
(* given every kind of incoming: strings, Buffers and streams, and values  *)
(* that are none of these.                                                 *)
(***************************************************************************)
AnyIncomings ==
    Incomings \cup { Incoming("object", <<>>, <<>>), Incoming("undefined", <<>>, <<>>) }

NextIncoming ==
    \/ S3AttachmentDriver(Users)
    \/ \E id \in HostIds : CreateAttachment(<<"4">>, id, <<>>)
    \/ \E d \in Drivers, attachment \in attachments :
         InitAttachment(d, attachment, RandomId("a"))
    \/ \E d \in Drivers, attachment \in attachments, incoming \in AnyIncomings :
         Save(d, attachment, incoming)
    \/ \E call \in pending : UploadChunk(call)
    \/ \E call \in pending : SaveDone(call)
    \/ \E d \in Drivers, attachment \in attachments : Delete(d, attachment)
    \/ \E call \in pending : DeleteDone(call)

SpecIncoming == Init /\ [][NextIncoming]_vars

(***************************************************************************)
(* The concurrent specification: two collections configured with one       *)
(* address, constructed in any order while store calls of the drivers      *)
(* built so far await the backend.  The constructor holds no await: the    *)
(* has / get / set of lines 78-95 run to completion in one step.           *)
(***************************************************************************)
Rival == Collection("jobs", <<"h">>, <<"b", "/", "a">>, FALSE, <<>>)

NextConcurrent ==
    \/ \E collection \in { Users, Rival } : S3AttachmentDriver(collection)
    \/ \E id \in HostIds : CreateAttachment(<<"4">>, id, <<>>)
    \/ \E d \in Drivers, attachment \in attachments :
         InitAttachment(d, attachment, RandomId("a"))
    \/ \E d \in Drivers, attachment \in attachments : Save(d, attachment, OneByte)
    \/ \E call \in pending : SaveDone(call)
    \/ \E d \in Drivers : Clear(d)
    \/ \E call \in pending : DeleteDirectoryDone(call)

SpecConcurrent == Init /\ [][NextConcurrent]_vars

(***************************************************************************)
(* The isolation specification: two collections on one endpoint and        *)
(* bucket, the prefix of one ("a/") a leading part of the other's          *)
(* ("a/c/"), one attachment and the store calls that write or remove.      *)
(***************************************************************************)
Nested == Collection("jobs", <<"h">>, <<"b", "/", "a", "/", "c">>, FALSE, <<>>)

NextIsolation ==
    \/ \E collection \in { Users, Nested } : S3AttachmentDriver(collection)
    \/ \E id \in HostIds : CreateAttachment(<<"4">>, id, <<>>)
    \/ \E d \in Drivers, attachment \in attachments :
         InitAttachment(d, attachment, RandomId("a"))
    \/ \E d \in Drivers, attachment \in attachments : Save(d, attachment, OneByte)
    \/ \E call \in pending : SaveDone(call)
    \/ \E d \in Drivers, attachment \in attachments : Delete(d, attachment)
    \/ \E call \in pending : DeleteDone(call)
    \/ \E d \in Drivers, documentId \in { <<"4">>, <<"c">> } :
         DeleteAllInDocument(d, documentId)
    \/ \E d \in Drivers : Clear(d)
    \/ \E call \in pending : DeleteDirectoryDone(call)

SpecIsolation == Init /\ [][NextIsolation]_vars

(***************************************************************************)
(* Vocabulary of the properties of the endpoint registry, stated over the  *)
(* history of constructor calls.                                           *)
(***************************************************************************)
\* number of non-empty '/'-separated segments of a pathname
SegmentCount(pathname) ==
    Cardinality({ i \in 1..Len(pathname) :
                    /\ pathname[i] # Slash
                    /\ (i = 1 \/ pathname[i - 1] = Slash) })

WellFormed(collection) == SegmentCount(collection.pathname) >= 2

\* the (endpoint, bucket, prefix) triple of a well-formed collection
Address(collection) ==
    << collection.hostname, Bucket(collection.pathname), Prefix(collection.pathname) >>

Call(i) == constructions[i].collection

\* the earlier constructor calls for the address of call i
Earlier(i) ==
    { j \in 1..(i - 1) : WellFormed(Call(j)) /\ Address(Call(j)) = Address(Call(i)) }

Lowest(S) == CHOOSE j \in S : \A k \in S : j <= k

\* call i finds its address recorded under another collection.url
RecordedForOther(i) ==
    /\ Earlier(i) # {}
    /\ Call(Lowest(Earlier(i))).url # Call(i).url

\* call i finds its address recorded under its own collection.url
RecordedForSelf(i) ==
    /\ Earlier(i) # {}
    /\ Call(Lowest(Earlier(i))).url = Call(i).url

\* C1: a construction with a well-formed backend path fails with the
\* endpoint-sharing error if and only if its (endpoint, bucket, prefix) address
\* is already recorded under another collection.url; so distinct prefixes under
\* one bucket coexist and the second collection on an identical triple fails.
C1_SharingErrorIffRecordedForOther ==
    \A i \in 1..Len(constructions) :
        WellFormed(Call(i)) =>
            ( constructions[i].outcome = "storageEndpointSharing" <=> RecordedForOther(i) )

\* two collections on one bucket with distinct prefixes both constructed, and a
\* third call of another collection on an identical triple was rejected
C1_Witness ==
    /\ Len(constructions) = 3
    /\ constructions[1].outcome = "ok"
    /\ constructions[2].outcome = "ok"
    /\ constructions[3].outcome = "storageEndpointSharing"
    /\ Call(1).url # Call(2).url
    /\ Call(1).hostname = Call(2).hostname
    /\ Bucket(Call(1).pathname) = Bucket(Call(2).pathname)
    /\ Prefix(Call(1).pathname) # Prefix(Call(2).pathname)
    /\ Address(Call(3)) = Address(Call(1))
    /\ Call(3).url # Call(1).url

\* C2: constructing again for a recorded address succeeds whenever the
\* collection.url equals the recorded one, however often it is repeated and
\* whatever constructions happened in between.
C2_SameCollectionReconstructs ==
    \A i \in 1..Len(constructions) :
        ( WellFormed(Call(i)) /\ RecordedForSelf(i) ) => constructions[i].outcome = "ok"

\* a collection constructed, another was rejected on its address, and the first
\* constructed again
C2_Witness ==
    /\ Len(constructions) = 3
    /\ constructions[1].outcome = "ok"
    /\ constructions[2].outcome = "storageEndpointSharing"
    /\ Call(3) = Call(1)
    /\ constructions[3].outcome = "ok"
    /\ Len(drivers) = 2

\* the first constructor call that recorded the full endpoint `address`
FirstClaims(i, address) ==
    /\ WellFormed(Call(i))
    /\ FullEndpoint(Call(i)) = address
    /\ \A j \in 1..(i - 1) :
        ~ ( WellFormed(Call(j)) /\ FullEndpoint(Call(j)) = address )

FirstClaimantRecorded ==
    \A address \in DOMAIN storageEndpointFoolproof :
        \E i \in 1..Len(constructions) :
            /\ FirstClaims(i, address)
            /\ storageEndpointFoolproof[address] = Call(i).url

EntriesKept ==
    \A address \in DOMAIN storageEndpointFoolproof :
        /\ address \in DOMAIN storageEndpointFoolproof'
        /\ storageEndpointFoolproof'[address] = storageEndpointFoolproof[address]

\* C3: the registry is append-only and first-claimant-wins: every recorded
\* address maps to the collection.url of the first construction for it, and no
\* construction, successful or rejected, changes or removes an entry.
C3_RegistryAppendOnlyFirstWins ==
    []FirstClaimantRecorded /\ [][EntriesKept]_vars

\* an address recorded for its first claimant after a rejected claim of
\* another collection and a malformed construction
C3_Witness ==
    /\ Len(constructions) = 3
    /\ constructions[1].outcome = "ok"
    /\ constructions[2].outcome = "storageEndpointSharing"
    /\ constructions[3].outcome = "missingBucketAndPrefix"
    /\ DOMAIN storageEndpointFoolproof = { FullEndpoint(Call(1)) }
    /\ storageEndpointFoolproof[FullEndpoint(Call(1))] = Call(1).url

\* C4: a construction whose pathname has fewer than two non-empty segments
\* fails with the configuration error, adds no registry entry and creates no
\* backend client.
C4_MalformedPathRejectedFirst ==
    [][ ( /\ Len(constructions') = Len(constructions) + 1
          /\ ~ WellFormed(constructions'[Len(constructions')].collection) )
        => ( /\ constructions'[Len(constructions')].outcome = "missingBucketAndPrefix"
             /\ storageEndpointFoolproof' = storageEndpointFoolproof
             /\ drivers' = drivers ) ]_vars

\* an empty pathname, a bucket alone and a pathname of slashes were all rejected
C4_Witness ==
    /\ Len(constructions) = 3
    /\ Call(1).pathname = <<>>
    /\ Call(2).pathname = <<"b">>
    /\ Call(3).pathname = <<"/", "/">>
    /\ \A i \in 1..3 : constructions[i].outcome = "missingBucketAndPrefix"
    /\ storageEndpointFoolproof = <<>>
    /\ drivers = <<>>


(***************************************************************************)
(* Vocabulary of the properties of the store calls.  `written` is the      *)
(* host's view: per attachment (driver, documentId, id), the save or       *)
(* delete that settled last.                                               *)
(***************************************************************************)
\* where the object of a subject lives in the backend
LocatorOf(subject) == Locator(subject.s3, PathJoin(subject.documentId, subject.id))

IsRead(call) == call.op \in { "load", "getReadStream" }
NotFound(call) == call.status = "rejected" /\ call.error = "NotFound"

\* C5: save-then-load round trip: when the last settled save of an attachment
\* stored content C, as a string, a Buffer or a stream of one or several
\* chunks, and no save or delete of it settled since, load returns exactly C.
C5_SaveThenLoad ==
    ( last.op = "load" /\ Expect(last.subject).kind = "saved" )
        => ( last.status = "resolved" /\ last.value = Expect(last.subject).content )

\* a load returned the two bytes that a stream delivered in two chunks
C5_Witness ==
    /\ last.op = "load"
    /\ Expect(last.subject).kind = "saved"
    /\ Expect(last.subject).type = "stream"
    /\ Expect(last.subject).content = <<1, 2>>
    /\ last.status = "resolved"
    /\ last.value = <<1, 2>>

\* C6: save overwrites: once a save has settled, the object at the path is
\* exactly the content of that save, whatever was stored there before, so that
\* a load returns the second content with no residue of the first.
C6_SaveReplaces ==
    \A subject \in DOMAIN written :
        written[subject].kind = "saved" =>
            GetObject(objects, subject.s3, PathJoin(subject.documentId, subject.id))
                = Resolved(written[subject].content)

\* a one-byte stream was saved over two bytes
C6_Witness ==
    \E subject \in DOMAIN written :
        /\ written[subject].kind = "saved"
        /\ written[subject].type = "stream"
        /\ written[subject].content = <<3>>
        /\ written[subject].over.kind = "saved"
        /\ written[subject].over.content = <<1, 2>>
        /\ objects[LocatorOf(subject)] = <<3>>

Settles(op) == Cardinality(pending') < Cardinality(pending) /\ last'.op = op

\* nothing is stored for the subject: it was never saved, or deleted since
HoldsNothing(subject) == Expect(subject).kind \in { "never", "deleted" }

\* C8 as stated: a delete of an attachment whose path holds no object is
\* rejected with the not-found error and leaves the backend unchanged.
C8_DeleteAbsentRejected ==
    [][ ( Settles("delete") /\ HoldsNothing(last'.subject) )
        => ( NotFound(last') /\ objects' = objects ) ]_vars

\* C8 as amended: a delete of an attachment whose path holds no object
\* resolves and leaves the backend unchanged; so does the second of two
\* deletes of one attachment.
C8_DeleteAbsentResolves ==
    [][ ( Settles("delete") /\ HoldsNothing(last'.subject) )
        => ( last'.status = "resolved" /\ objects' = objects ) ]_vars

\* the second of two deletes of a saved attachment has resolved
C8_Witness ==
    /\ last.op = "delete"
    /\ last.status = "resolved"
    /\ Expect(last.subject).kind = "deleted"
    /\ Expect(last.subject).over.kind = "deleted"
    /\ LocatorOf(last.subject) \notin DOMAIN objects


\* the subjects of a document of a driver's collection that the host has written
SubjectsOf(s3, documentId) ==
    { subject \in DOMAIN written : subject.s3 = s3 /\ subject.documentId = documentId }
SubjectsBeside(s3, documentId) ==
    { subject \in DOMAIN written : subject.s3 = s3 /\ subject.documentId # documentId }

SameObject(locator) ==
    /\ (locator \in DOMAIN objects) <=> (locator \in DOMAIN objects')
    /\ (locator \in DOMAIN objects) => objects'[locator] = objects[locator]

\* C9: deleteAllInDocument(d) resolves, removes every object of the
\* collection under document d and leaves the objects of every other document
\* of the collection as they were, also of a document whose id starts with d;
\* with nothing stored under d it changes nothing.
C9_DeleteAllInDocumentFrame ==
    [][ Settles("deleteAllInDocument") =>
        LET s3 == last'.subject.s3
            documentId == last'.subject.documentId
        IN  /\ last'.status = "resolved"
            /\ \A subject \in SubjectsOf(s3, documentId) :
                 LocatorOf(subject) \notin DOMAIN objects'
            /\ \A subject \in SubjectsBeside(s3, documentId) :
                 SameObject(LocatorOf(subject))
            /\ ( \A subject \in SubjectsOf(s3, documentId) :
                   LocatorOf(subject) \notin DOMAIN objects )
               => objects' = objects ]_vars

\* deleteAllInDocument( "4" ) removed the object of document "4" and the
\* object of document "42" is still stored
C9_Witness ==
    /\ last.op = "deleteAllInDocument"
    /\ last.subject.documentId = <<"4">>
    /\ last.removed = { Locator(last.subject.s3, <<"4", "/", "f">>) }
    /\ Locator(last.subject.s3, <<"4", "2", "/", "f">>) \in DOMAIN objects
    /\ \E subject \in SubjectsOf(last.subject.s3, <<"4", "2">>) :
         /\ written[subject].over.kind = "saved"
         /\ objects[LocatorOf(subject)] = written[subject].over.content


(***************************************************************************)
(* Vocabulary of the properties of initAttachment.                         *)
(***************************************************************************)
Base36 ==
    { "0", "1", "2", "3", "4", "5", "6", "7", "8", "9",
      "a", "b", "c", "d", "e", "f", "g", "h", "i", "j", "k", "l", "m",
      "n", "o", "p", "q", "r", "s", "t", "u", "v", "w", "x", "y", "z" }

IsBase36(s) == \A i \in 1..Len(s) : s[i] \in Base36

\* C10: initAttachment on an attachment without id assigns 24 base-36
\* characters, followed by '.' and the extension only when the driver appends
\* extensions and the attachment has one; every later call leaves the id as it
\* is, whatever the driver's setting and the extension are by then.
C10_IdAssignedOnce ==
    \A attachment \in attachments :
        attachment.first.set =>
            LET id == attachment.id
                first == attachment.first
            IN  /\ Len(id) >= IdLength
                /\ IsBase36(SubSeq(id, 1, IdLength))
                /\ SubSeq(id, 1, IdLength) = first.random
                /\ IF first.appendExtension /\ first.extension # <<>>
                   THEN SubSeq(id, IdLength + 1, Len(id)) = <<".">> \o first.extension
                   ELSE Len(id) = IdLength

\* an id generated with its extension, and initAttachment called again by a
\* driver that appends none, the extension gone
C10_Witness ==
    \E attachment \in attachments :
        /\ attachment.first.set
        /\ attachment.first.appendExtension
        /\ attachment.first.extension = <<"t">>
        /\ attachment.again.set
        /\ ~ attachment.again.appendExtension
        /\ attachment.again.extension = <<>>
        /\ attachment.id = attachment.first.random \o <<".", "t">>


\* a string that path.join keeps as one segment: not empty, without '/', and
\* neither "." nor ".."
IsSegment(s) ==
    /\ s # <<>>
    /\ \A i \in 1..Len(s) : s[i] # Slash
    /\ s # <<Dot>>
    /\ s # DotDot

HasPath(attachment) == attachment.path # <<>>

PlainPath(attachment) == attachment.documentId \o <<Slash>> \o attachment.id

SamePair(a, b) == a.documentId = b.documentId /\ a.id = b.id

\* C11 as stated: after every initAttachment call the path is
\* documentId + "/" + id exactly, for every documentId and every id, and two
\* attachments with different (documentId, id) pairs never have the same path.
C11_PathIsConcatenation ==
    /\ \A attachment \in attachments :
         HasPath(attachment) => attachment.path = PlainPath(attachment)
    /\ \A a, b \in attachments :
         ( HasPath(a) /\ HasPath(b) /\ ~ SamePair(a, b) ) => a.path # b.path

\* C11 as amended: when documentId and id are each a single path segment, the
\* path is documentId + "/" + id after every initAttachment call, whichever
\* driver made it and however often, and two such attachments with different
\* (documentId, id) pairs have different paths.
C11_SegmentPathIsConcatenation ==
    /\ \A attachment \in attachments :
         ( HasPath(attachment) /\ IsSegment(attachment.documentId)
                               /\ IsSegment(attachment.id) )
            => attachment.path = PlainPath(attachment)
    /\ \A a, b \in attachments :
         ( /\ HasPath(a) /\ HasPath(b)
           /\ IsSegment(a.documentId) /\ IsSegment(a.id)
           /\ IsSegment(b.documentId) /\ IsSegment(b.id)
           /\ ~ SamePair(a, b) )
            => a.path # b.path

\* an attachment of document "5" whose id was generated with its extension by
\* one driver and initialised again by the driver of the other prefix, beside
\* the attachment "f" of document "4"
C11_Witness ==
    \E a, b \in attachments :
        /\ a.documentId = <<"5">>
        /\ a.first.set /\ a.first.appendExtension
        /\ a.again.set /\ ~ a.again.appendExtension
        /\ a.id = RandomId("a") \o <<".", "t">>
        /\ a.path = <<"5", "/">> \o a.id
        /\ b.documentId = <<"4">>
        /\ b.path = <<"4", "/", "f">>


(***************************************************************************)
(* Vocabulary of the properties of save's dispatch on attachment.incoming. *)
(***************************************************************************)
\* the step is a save call whose incoming is of none of the `types`
SavesOtherThan(types) ==
    \E d \in Drivers, attachment \in attachments, incoming \in AnyIncomings :
        /\ incoming.type \notin types
        /\ Save(d, attachment, incoming)

\* the step is a save call whose incoming is of type `type`
SavesA(type) ==
    \E d \in Drivers, attachment \in attachments, incoming \in AnyIncomings :
        /\ incoming.type = type
        /\ Save(d, attachment, incoming)

Unsupported(call) ==
    call.op = "save" /\ call.status = "rejected" /\ call.error = "unsupportedType"

\* no backend call was issued and no object changed
NoWrite == pending' = pending /\ objects' = objects

\* C12 as stated: save is rejected as unsupported whenever incoming is neither
\* a Buffer nor a readable stream (a string, a number, an object, undefined),
\* and then issues no backend write and leaves every object unchanged.
C12_NonBufferNonStreamRejected ==
    [][ SavesOtherThan({ "buffer", "stream" }) => ( Unsupported(last') /\ NoWrite ) ]_vars

\* C12 as amended: save is rejected as unsupported whenever incoming is neither
\* a string, a Buffer nor a readable stream (a number, an object, undefined),
\* and then issues no backend write and leaves every object unchanged; a
\* string is put like a Buffer.
C12_NonContentNonStreamRejected ==
    [][ /\ SavesOtherThan({ "string", "buffer", "stream" })
           => ( Unsupported(last') /\ NoWrite )
        /\ SavesA("string")
           => \E call \in pending' \ pending :
                call.op = "save" /\ call.type = "string" /\ call.stream = <<>> ]_vars

\* a save with an unsupported incoming was rejected while the object saved
\* before is still at the path
C12_Witness ==
    /\ Unsupported(last)
    /\ pending = {}
    /\ Expect(last.subject).kind = "saved"
    /\ GetObject(objects, last.subject.s3,
                 PathJoin(last.subject.documentId, last.subject.id))
         = Resolved(Expect(last.subject).content)


(***************************************************************************)
(* Vocabulary of the properties of registration among store calls.         *)
(***************************************************************************)
\* the full endpoints that well-formed constructor calls were made for
Claimed == { FullEndpoint(Call(i)) : i \in { j \in 1..Len(constructions) : WellFormed(Call(j)) } }

\* the constructor calls made for a full endpoint
Claimants(address) ==
    { i \in 1..Len(constructions) : WellFormed(Call(i)) /\ FullEndpoint(Call(i)) = address }

\* the collections whose constructor returned for a full endpoint
Winners(address) ==
    { Call(i).url : i \in { j \in Claimants(address) : constructions[j].outcome = "ok" } }

\* the collections that hold a driver on a full endpoint
LiveOn(address) ==
    { drivers[d].collection.url :
        d \in { e \in Drivers : FullEndpoint(drivers[e].collection) = address } }

\* C13: whatever store calls are pending when the constructors run, and in
\* whatever order they run, among the collections constructing for one address
\* exactly one succeeds and every call of another fails with the sharing
\* error; no state holds drivers of two collections on one address.
C13_OneCollectionPerAddress ==
    \A address \in Claimed :
        /\ Cardinality(Winners(address)) = 1
        /\ \A i \in Claimants(address) :
             Call(i).url \notin Winners(address)
                => constructions[i].outcome = "storageEndpointSharing"
        /\ Cardinality(LiveOn(address)) = 1

\* "jobs" constructed first and "users" was rejected on its address, while a
\* save and a clear through the driver of "jobs" await the backend
C13_Witness ==
    /\ Len(constructions) = 2
    /\ Call(1) = Rival /\ constructions[1].outcome = "ok"
    /\ Call(2) = Users /\ constructions[2].outcome = "storageEndpointSharing"
    /\ Len(drivers) = 1
    /\ { call.op : call \in pending } = { "save", "clear" }


(***************************************************************************)
(* Vocabulary of the properties of pathnames with empty segments.          *)
(***************************************************************************)
\* a pathname without the '/' that another '/' or the end follows
RECURSIVE Squeezed(_)
Squeezed(pathname) ==
    IF pathname = <<>> THEN <<>>
    ELSE IF pathname[1] = Slash /\ ( Len(pathname) = 1 \/ pathname[2] = Slash )
    THEN Squeezed(Tail(pathname))
    ELSE <<pathname[1]>> \o Squeezed(Tail(pathname))

\* a pathname without its empty segments: no leading, trailing or doubled '/'
Canonical(pathname) ==
    LET squeezed == Squeezed(pathname)
    IN  IF squeezed # <<>> /\ squeezed[1] = Slash THEN Tail(squeezed) ELSE squeezed

DifferByEmptySegments(p, q) == p # q /\ Canonical(p) = Canonical(q)

EndsInOneSlash(prefix) ==
    /\ Len(prefix) >= 2
    /\ prefix[Len(prefix)] = Slash
    /\ prefix[Len(prefix) - 1] # Slash

\* C14: two well-formed pathnames that differ only by empty segments give the
\* same bucket and the same prefix, which ends in exactly one '/', and on one
\* endpoint the same registry address; once a collection has constructed with
\* one of them, a construction of another collection with the other fails
\* with the sharing error.
C14_EmptySegmentsSameAddress ==
    \A i, j \in 1..Len(constructions) :
        ( /\ WellFormed(Call(i)) /\ WellFormed(Call(j))
          /\ DifferByEmptySegments(Call(i).pathname, Call(j).pathname) )
        => /\ Bucket(Call(i).pathname) = Bucket(Call(j).pathname)
           /\ Prefix(Call(i).pathname) = Prefix(Call(j).pathname)
           /\ EndsInOneSlash(Prefix(Call(i).pathname))
           /\ Call(i).hostname = Call(j).hostname
                => /\ FullEndpoint(Call(i)) = FullEndpoint(Call(j))
                   /\ ( /\ i < j
                        /\ Call(i).url # Call(j).url
                        /\ constructions[i].outcome = "ok" )
                      => constructions[j].outcome = "storageEndpointSharing"

\* "users" constructed with "b/a" and "jobs" was rejected with "/b//a/" on
\* the same endpoint
C14_Witness ==
    /\ Len(constructions) = 2
    /\ Call(1).pathname = <<"b", "/", "a">>
    /\ Call(2).pathname = <<"/", "b", "/", "/", "a", "/">>
    /\ Call(1).hostname = Call(2).hostname
    /\ Call(1).url = "users" /\ Call(2).url = "jobs"
    /\ constructions[1].outcome = "ok"
    /\ constructions[2].outcome = "storageEndpointSharing"
    /\ DOMAIN storageEndpointFoolproof = { FullEndpoint(Call(1)) }


(***************************************************************************)
(* Vocabulary of the properties of stores of different collections.        *)
(***************************************************************************)
\* the stores of two collections on one endpoint and bucket
SameBucket(s3, other) ==
    /\ s3.endpoint = other.endpoint
    /\ s3.bucket = other.bucket
    /\ s3.prefix # other.prefix

\* the subjects whose object was saved through a store of another collection
\* on the endpoint and bucket of `s3`
SavedThroughOther(s3) ==
    { subject \in DOMAIN written :
        /\ SameBucket(s3, subject.s3)
        /\ written[subject].kind = "saved" }

\* the objects under the prefix of `s3`
UnderPrefix(store, s3) ==
    { locator \in DOMAIN store :
        /\ locator.endpoint = s3.endpoint
        /\ locator.bucket = s3.bucket
        /\ StartsWith(locator.key, s3.prefix) }

\* C15: between two stores constructed for different collections on one
\* endpoint and bucket, no save, delete, deleteAllInDocument or clear of one
\* store changes or removes an object saved through the other, also when one
\* prefix is a leading part of the other; clear removes every object under the
\* prefix of its own collection.
C15_CrossCollectionIsolation ==
    [][ \A call \in pending \ pending' :
          /\ \A subject \in SavedThroughOther(call.s3) :
               SameObject(LocatorOf(subject))
          /\ call.op = "clear" => UnderPrefix(objects', call.s3) = {} ]_vars

====
